---- MODULE Spec2Model ----
(***************************************************************************)
(* Model of src/minesweeper.py: the Minesweeper board, the Sentence class  *)
(* and the MinesweeperAI knowledge base with its move selection.           *)
(*                                                                         *)
(* A cell is a pair <<i, j>>.  add_knowledge is modelled in two actions:   *)
(* AddKnowledge is the straight-line part of the method (lines 211-232)    *)
(* and AddKnowledgeLoop is one iteration of its for loop over              *)
(* self.knowledge (lines 236-258); pc tells whether a call is inside that  *)
(* loop.  The other methods are one action each.                           *)
(***************************************************************************)
EXTENDS Integers, Sequences, FiniteSets, TLC

VARIABLES
    height, width,      \* MinesweeperAI.height / width (and the board's)
    board,              \* Minesweeper.mines: the true mine layout
    potential_moves,    \* MinesweeperAI.potential_moves (a list)
    moves_made,         \* MinesweeperAI.moves_made
    mines,              \* MinesweeperAI.mines
    safes,              \* MinesweeperAI.safes
    knowledge,          \* MinesweeperAI.knowledge (a list of Sentence)
    pc,                 \* "idle", or "loop" inside add_knowledge's for loop
    cell, count,        \* arguments of the running add_knowledge call
    cells,              \* its local variable cells (line 220)
    new,                \* position in knowledge of its new_sentence object
    idx,                \* position in knowledge the for loop visits next
    op, ret, exc,       \* last call made, what it returned, what it raised
    calls               \* number of calls made on the AI so far

vars == <<height, width, board, potential_moves, moves_made, mines, safes,
          knowledge, pc, cell, count, cells, new, idx, op, ret, exc, calls>>

(***************************************************************************)
(* Bounds of the model.                                                    *)
(***************************************************************************)
MaxHeight == 2      \* boards have 1..MaxHeight rows
MaxWidth == 2       \* and 1..MaxWidth columns
MaxMines == 1       \* the layout holds at most MaxMines mines
MaxCount == 2       \* counts passed by an arbitrary caller are 0..MaxCount
MaxCalls == 3       \* calls made on one AI
MaxKnow == 5        \* sentences held in the knowledge list
MaxSeed == 2        \* cells of a sentence put into the knowledge base beforehand

(***************************************************************************)
(* Helpers for Python's containers.                                        *)
(***************************************************************************)
Range(s) == {s[k] : k \in 1..Len(s)}

\* list.remove(x): drops the first occurrence; a missing x raises ValueError,
\* which both callers swallow (lines 179-182, 273-276), leaving the list as is.
ListRemove(s, x) ==
    IF x \in Range(s)
    THEN LET k == CHOOSE n \in 1..Len(s) :
                      s[n] = x /\ \A m \in 1..(n - 1) : s[m] # x
         IN  SubSeq(s, 1, k - 1) \o SubSeq(s, k + 1, Len(s))
    ELSE s

\* The cells of an h x w board.
Board(h, w) == {<<i, j>> : i \in 0..(h - 1), j \in 0..(w - 1)}

\* The cells (i, j) the two nested range(x-1, x+2) loops run over, minus c.
Around(c) == {<<i, j>> : i \in (c[1] - 1)..(c[1] + 1),
                         j \in (c[2] - 1)..(c[2] + 1)} \ {c}

(***************************************************************************)
(* Minesweeper (the board).                                                *)
(***************************************************************************)
\* Minesweeper.nearby_mines on a board h x w with mine set layout.
nearby_mines(h, w, layout, c) ==
    Cardinality({d \in Around(c) :
                    /\ 0 <= d[1] /\ d[1] < h /\ 0 <= d[2] /\ d[2] < w
                    /\ d \in layout})

(***************************************************************************)
(* Sentence.  The fields mines and safe are the sets the object keeps      *)
(* beside cells and count.  What the code puts into them is never a cell:  *)
(* Python's None, and generator objects, each a new object of its own.     *)
(***************************************************************************)
None == <<"None">>

\* The generator object made by "(i for i in self.cells)" when it is added to
\* the set S: an object that is equal to no element of S.
NewGenerator(S) == <<"genexpr" \o ToString(Cardinality(S) + 1)>>

Sentence(cs, n) == [cells |-> cs, count |-> n, mines |-> {}, safe |-> {}]

\* Sentence_mark_mine without the test "if cell in self.cells".
Sentence_mark_mine_unguarded(s, c) ==
    [s EXCEPT !.cells = @ \ {c}, !.count = @ - 1, !.mines = @ \cup {None}]

\* Sentence.mark_mine: set.remove returns None, and that is what is stored.
Sentence_mark_mine(s, c) ==
    IF c \in s.cells
    THEN [s EXCEPT !.cells = @ \ {c}, !.count = @ - 1, !.mines = @ \cup {None}]
    ELSE s

\* Sentence.mark_safe.
Sentence_mark_safe(s, c) ==
    IF c \in s.cells
    THEN [s EXCEPT !.cells = @ \ {c}, !.safe = @ \cup {None}]
    ELSE s

\* Sentence.known_mines: the sentence afterwards and the set returned, which
\* is the object's own set self.mines.
Sentence_known_mines(s) ==
    LET s1 == IF Cardinality(s.cells) = s.count
              THEN [s EXCEPT !.mines = @ \cup {NewGenerator(@)}]
              ELSE s
    IN  [sentence |-> s1, result |-> s1.mines]

\* Sentence.known_safes: likewise, with self.safe.
Sentence_known_safes(s) ==
    LET s1 == IF Cardinality(s.cells) = 0
              THEN [s EXCEPT !.safe = @ \cup {NewGenerator(@)}]
              ELSE s
    IN  [sentence |-> s1, result |-> s1.safe]

(***************************************************************************)
(* MinesweeperAI.  An AI object is handled as a record of its fields.      *)
(***************************************************************************)
AI == [potential_moves |-> potential_moves, moves_made |-> moves_made,
       mines |-> mines, safes |-> safes, knowledge |-> knowledge]

SetAI(a) ==
    /\ potential_moves' = a.potential_moves
    /\ moves_made' = a.moves_made
    /\ mines' = a.mines
    /\ safes' = a.safes
    /\ knowledge' = a.knowledge

\* MinesweeperAI.__init__
NewAI(h, w) ==
    [potential_moves |-> [k \in 1..(h * w) |-> <<(k - 1) \div w, (k - 1) % w>>],
     moves_made |-> {}, mines |-> {}, safes |-> {}, knowledge |-> <<>>]

\* MinesweeperAI.mark_mine
mark_mine(a, c) ==
    [a EXCEPT !.mines = @ \cup {c},
              !.potential_moves = ListRemove(@, c),
              !.knowledge = [k \in 1..Len(@) |-> Sentence_mark_mine(@[k], c)]]

\* MinesweeperAI.mark_safe
mark_safe(a, c) ==
    [a EXCEPT !.safes = @ \cup {c},
              !.knowledge = [k \in 1..Len(@) |-> Sentence_mark_safe(@[k], c)]]

\* MarkSafeAll leaving its loop after the first cell.
MarkSafeAllFirstOnly(a, S) ==
    IF S = {} THEN a
    ELSE mark_safe(a, CHOOSE x \in S : TRUE)

\* "for i in S: self.mark_safe(i)" and "for i in S: self.mark_mine(i)" over a
\* set S that the loop body does not change (it is a fresh set object).
RECURSIVE MarkSafeAll(_, _)
MarkSafeAll(a, S) ==
    IF S = {} THEN a
    ELSE LET c == CHOOSE x \in S : TRUE
         IN  MarkSafeAll(mark_safe(a, c), S \ {c})

RECURSIVE MarkMineAll(_, _)
MarkMineAll(a, S) ==
    IF S = {} THEN a
    ELSE LET c == CHOOSE x \in S : TRUE
         IN  MarkMineAll(mark_mine(a, c), S \ {c})

\* AddKnowledgeHead without the call of mark_safe for the revealed cell.
AddKnowledgeHeadNoSafe(a, c, n) ==
    LET a1 == [a EXCEPT !.moves_made = @ \cup {c}]
        a3 == [a1 EXCEPT !.knowledge =
                  [k \in 1..Len(@) |-> [@[k] EXCEPT !.cells = @ \ {c}]]]
        cs == {t \in Around(c) : /\ t \notin a3.moves_made
                                 /\ t \notin a3.safes
                                 /\ t \notin a3.mines}
    IN  [ai |-> [a3 EXCEPT !.knowledge = Append(@, Sentence(cs, n))],
         cells |-> cs]

\* AddKnowledgeHead testing the neighbours against moves_made only.
AddKnowledgeHeadMovesOnly(a, c, n) ==
    LET a1 == [a EXCEPT !.moves_made = @ \cup {c}]
        a2 == mark_safe(a1, c)
        a3 == [a2 EXCEPT !.knowledge =
                  [k \in 1..Len(@) |-> [@[k] EXCEPT !.cells = @ \ {c}]]]
        cs == {t \in Around(c) : t \notin a3.moves_made}
    IN  [ai |-> [a3 EXCEPT !.knowledge = Append(@, Sentence(cs, n))],
         cells |-> cs]

\* add_knowledge, lines 211-232: everything before the for loop.  The result
\* is the AI together with the local set cells.
AddKnowledgeHead(a, c, n) ==
    LET a1 == [a EXCEPT !.moves_made = @ \cup {c}]
        a2 == mark_safe(a1, c)
        a3 == [a2 EXCEPT !.knowledge =
                  [k \in 1..Len(@) |-> [@[k] EXCEPT !.cells = @ \ {c}]]]
        cs == {t \in Around(c) : /\ t \notin a3.moves_made
                                 /\ t \notin a3.safes
                                 /\ t \notin a3.mines}
    IN  [ai |-> [a3 EXCEPT !.knowledge = Append(@, Sentence(cs, n))],
         cells |-> cs]

\* MinesToMark with the loop over the wrong local set.
MinesToMarkWrongSet(new_cells, new_count, safe_cells) ==
    IF Cardinality(new_cells) = new_count THEN safe_cells ELSE {}

\* The cells the body marks as mines once it has appended its derived
\* sentence (lines 246-248 and 256-258).
MinesToMark(new_cells, new_count, safe_cells) ==
    IF Cardinality(new_cells) = new_count THEN new_cells ELSE {}

\* add_knowledge, lines 237-258: the body of the for loop for the sentence at
\* position i, with new_sentence the object at position nw.
LoopBody(a, i, nw) ==
    LET sentence == a.knowledge[i]
        new_sentence == a.knowledge[nw]
    IN  IF sentence.cells \subseteq new_sentence.cells
        THEN LET new_cells == new_sentence.cells \ sentence.cells
                 safe_cells == new_sentence.cells \cap sentence.cells
                 new_count == new_sentence.count - sentence.count
                 a1 == [a EXCEPT !.knowledge =
                           Append(@, Sentence(new_cells, new_count))]
                 a2 == MarkSafeAll(a1, safe_cells)
             IN  MarkMineAll(a2, MinesToMark(new_cells, new_count, safe_cells))
        ELSE IF new_sentence.cells \subseteq sentence.cells
        THEN LET new_cells == sentence.cells \ new_sentence.cells
                 new_count == sentence.count - new_sentence.count
                 a1 == [a EXCEPT !.knowledge =
                           Append(@, Sentence(new_cells, new_count))]
             IN  MarkMineAll(a1, MinesToMark(new_cells, new_count, {}))
        ELSE a

\* SafeMoves testing membership of the move list instead of moves_made.
SafeMovesListed(a) == {c \in a.safes : c \in Range(a.potential_moves)}

\* make_safe_move: the cells its loop over self.safes can stop at.
SafeMoves(a) == {c \in a.safes : c \notin a.moves_made}

\* SafeMoveTaken recording the returned cell as a move made.
SafeMoveTakenRecorded(a, c) ==
    [a EXCEPT !.potential_moves = ListRemove(@, c), !.moves_made = @ \cup {c}]

\* make_safe_move: what the call does to the AI when it returns cell c.
SafeMoveTaken(a, c) == [a EXCEPT !.potential_moves = ListRemove(@, c)]

\* make_random_move: what the call does to the AI when random.choice gives c.
RandomMoveTaken(a, c) == [a EXCEPT !.potential_moves = ListRemove(@, c)]

(***************************************************************************)
(* Initial states.                                                         *)
(***************************************************************************)
NoCall ==
    /\ pc = "idle"
    /\ cell = <<>> /\ count = 0 /\ cells = {} /\ new = 0 /\ idx = 0
    /\ op = "init" /\ ret = {} /\ exc = "none" /\ calls = 0

InitAI ==
    /\ height \in 1..MaxHeight
    /\ width \in 1..MaxWidth
    /\ potential_moves = NewAI(height, width).potential_moves
    /\ moves_made = {} /\ mines = {} /\ safes = {}
    /\ knowledge = <<>>
    /\ NoCall

\* The AI alone, driven by an arbitrary caller: the layout plays no part
\* (a board built with mines=0).
Init ==
    /\ InitAI
    /\ board = {}

\* Minesweeper.__init__ and MinesweeperAI.__init__ for one game: the layout is
\* any set of at most MaxMines cells of the board.
InitGame ==
    /\ InitAI
    /\ board \in {L \in SUBSET Board(height, width) : Cardinality(L) <= MaxMines}

\* A game in which the knowledge list already holds one sentence, put there
\* the way the scenarios of the specification give their sentences
\* (ai.knowledge.append(Sentence(cells, count))): a statement about at most
\* MaxSeed board cells that is true of the layout.  The empty list is included.
InitKB ==
    /\ height \in 1..MaxHeight
    /\ width \in 1..MaxWidth
    /\ potential_moves = NewAI(height, width).potential_moves
    /\ moves_made = {} /\ mines = {} /\ safes = {}
    /\ board \in {L \in SUBSET Board(height, width) : Cardinality(L) <= MaxMines}
    /\ knowledge \in {<<>>} \cup
          {<<Sentence(cs, Cardinality(cs \cap board))>> :
              cs \in {S \in SUBSET Board(height, width) :
                         Cardinality(S) \in 1..MaxSeed}}
    /\ NoCall

\* One Sentence object on its own, as Sentence(cells, count) constructs it,
\* held at knowledge[1]: at most MaxSeed cells of the board and a count of at
\* most MaxCount.
InitSentence ==
    /\ height \in 1..MaxHeight
    /\ width \in 1..MaxWidth
    /\ potential_moves = NewAI(height, width).potential_moves
    /\ moves_made = {} /\ mines = {} /\ safes = {}
    /\ board = {}
    /\ knowledge \in {<<Sentence(cs, n)>> :
                         cs \in {S \in SUBSET Board(height, width) :
                                    Cardinality(S) <= MaxSeed},
                         n \in 0..MaxCount}
    /\ NoCall

\* The end-to-end scenario: a 3 x 3 board whose only mine is at (0, 0), and a
\* fresh AI.
InitScenario ==
    /\ height = 3 /\ width = 3
    /\ board = {<<0, 0>>}
    /\ potential_moves = NewAI(height, width).potential_moves
    /\ moves_made = {} /\ mines = {} /\ safes = {}
    /\ knowledge = <<>>
    /\ NoCall

(***************************************************************************)
(* Actions.                                                                *)
(***************************************************************************)
CallStart(name) ==
    /\ pc = "idle"
    /\ calls < MaxCalls
    /\ calls' = calls + 1
    /\ op' = name

Returns(r) ==
    /\ pc' = "idle" /\ ret' = r /\ exc' = "none"
    /\ UNCHANGED <<height, width, board, cell, count, cells, new, idx>>

\* MinesweeperAI.mark_mine(c)
MarkMine(c) ==
    /\ CallStart("mark_mine")
    /\ SetAI(mark_mine(AI, c))
    /\ Returns({})

\* MinesweeperAI.mark_safe(c)
MarkSafe(c) ==
    /\ CallStart("mark_safe")
    /\ SetAI(mark_safe(AI, c))
    /\ Returns({})

\* MinesweeperAI.make_safe_move(): returns a cell (ret = {c}) or None (ret = {}).
MakeSafeMove ==
    /\ CallStart("make_safe_move")
    /\ IF SafeMoves(AI) = {}
       THEN SetAI(AI) /\ Returns({})
       ELSE \E c \in SafeMoves(AI) :
               SetAI(SafeMoveTaken(AI, c)) /\ Returns({c})

\* MinesweeperAI.make_random_move(): random.choice raises IndexError on an
\* empty list, before anything is changed.
MakeRandomMove ==
    /\ CallStart("make_random_move")
    /\ IF potential_moves = <<>>
       THEN /\ SetAI(AI)
            /\ pc' = "idle" /\ ret' = {} /\ exc' = "IndexError"
            /\ UNCHANGED <<height, width, board, cell, count, cells, new, idx>>
       ELSE \E c \in Range(potential_moves) :
               SetAI(RandomMoveTaken(AI, c)) /\ Returns({c})

\* MinesweeperAI.add_knowledge(c, n) up to the for loop.
AddKnowledge(c, n) ==
    /\ CallStart("add_knowledge")
    /\ LET r == AddKnowledgeHead(AI, c, n)
       IN  /\ SetAI(r.ai)
           /\ cells' = r.cells
           /\ new' = Len(r.ai.knowledge)
    /\ cell' = c /\ count' = n
    /\ idx' = 1
    /\ pc' = "loop"
    /\ ret' = {} /\ exc' = "none"
    /\ UNCHANGED <<height, width, board>>

\* One iteration of "for sentence in self.knowledge": the loop visits the
\* list by position and sees what the body appends; it is over once the
\* position has passed the end of the list, and the method returns None.
AddKnowledgeLoop ==
    /\ pc = "loop"
    /\ Len(knowledge) < MaxKnow
    /\ IF idx <= Len(knowledge)
       THEN /\ SetAI(LoopBody(AI, idx, new))
            /\ idx' = idx + 1
            /\ UNCHANGED <<height, width, board, pc, cell, count, cells, new,
                           op, ret, exc, calls>>
       ELSE /\ SetAI(AI)
            /\ pc' = "idle"
            /\ cell' = <<>> /\ count' = 0 /\ cells' = {} /\ new' = 0 /\ idx' = 0
            /\ UNCHANGED <<height, width, board, op, ret, exc, calls>>

\* The game's driver: a revealed cell is not a mine and the count is the
\* board's nearby_mines.
AddKnowledgeTruthful ==
    \E c \in Board(height, width) \ board :
        AddKnowledge(c, nearby_mines(height, width, board, c))

\* An arbitrary caller.
AddKnowledgeAny ==
    \E c \in Board(height, width) : \E n \in 0..MaxCount : AddKnowledge(c, n)

MarkMineAny == \E c \in Board(height, width) : MarkMine(c)

MarkSafeAny == \E c \in Board(height, width) : MarkSafe(c)

\* Calls made on the Sentence object at knowledge[1] itself.
SentenceCall(name, s, r) ==
    /\ CallStart(name)
    /\ knowledge' = <<s>>
    /\ pc' = "idle" /\ ret' = r /\ exc' = "none"
    /\ UNCHANGED <<height, width, board, potential_moves, moves_made, mines,
                   safes, cell, count, cells, new, idx>>

SentenceMarkMine ==
    \E c \in Board(height, width) :
        SentenceCall("Sentence.mark_mine", Sentence_mark_mine(knowledge[1], c), {})

SentenceMarkSafe ==
    \E c \in Board(height, width) :
        SentenceCall("Sentence.mark_safe", Sentence_mark_safe(knowledge[1], c), {})

KnownMines ==
    LET r == Sentence_known_mines(knowledge[1])
    IN  SentenceCall("Sentence.known_mines", r.sentence, r.result)

KnownSafes ==
    LET r == Sentence_known_safes(knowledge[1])
    IN  SentenceCall("Sentence.known_safes", r.sentence, r.result)

Next ==
    \/ MarkMineAny
    \/ MarkSafeAny
    \/ MakeSafeMove
    \/ MakeRandomMove
    \/ AddKnowledgeAny
    \/ AddKnowledgeLoop

Spec == Init /\ [][Next]_vars

NextGame ==
    \/ MakeSafeMove
    \/ MakeRandomMove
    \/ AddKnowledgeTruthful
    \/ AddKnowledgeLoop

SpecGame == InitGame /\ [][NextGame]_vars

SpecKB == InitKB /\ [][NextGame]_vars

NextSentence ==
    \/ SentenceMarkMine
    \/ SentenceMarkSafe
    \/ KnownMines
    \/ KnownSafes

SpecSentence == InitSentence /\ [][NextSentence]_vars

SpecScenario == InitScenario /\ [][NextGame]_vars

\* The methods that write the AI's sets and its sentences, called in any
\* order by any caller: mark_mine, mark_safe and add_knowledge.
NextMark ==
    \/ MarkMineAny
    \/ MarkSafeAny
    \/ AddKnowledgeAny
    \/ AddKnowledgeLoop

SpecMark == Init /\ [][NextMark]_vars

TypeOK ==
    /\ pc \in {"idle", "loop"}
    /\ moves_made \subseteq Board(height, width)
    /\ calls \in 0..MaxCalls

(***************************************************************************)
(* Properties.                                                             *)
(***************************************************************************)
\* The for loop of add_knowledge never reaches the end of the list: while a
\* call is in the loop there is always a sentence left to visit.
LoopNeverEnds == pc = "loop" => idx <= Len(knowledge)

\* The unresolved neighbours of the revealed cell that lie on the board, as
\* they were when the running call began.
BoardNeighbours == cells \cap Board(height, width)

\* C1 (soundness): with truthful counts on non-mine cells, every cell in the
\* AI's mines set is a mine of the layout and no cell in its safes set is one,
\* in every state, those inside a call included.
C1_Sound ==
    /\ mines \subseteq board
    /\ safes \cap board = {}

\* C2 (termination): a call of add_knowledge completes its loop within a
\* bounded number of passes, at most 4n for a board of n cells: the loop is
\* never about to visit a sentence after having visited 4n of them.
C2_BoundedPasses ==
    (pc = "loop" /\ idx <= Len(knowledge)) => idx <= 4 * height * width

\* C3: with truthful counts on non-mine cells, the AI's safes and mines sets
\* are disjoint in every state.
C3_Disjoint == safes \cap mines = {}

\* C3 witness: a truthful call next to a mine has visited its new sentence and
\* marked neighbours of the revealed cell.
C3_Witness ==
    /\ pc = "loop" /\ idx > new
    /\ count > 0
    /\ BoardNeighbours \cap safes # {}

\* C4: every sentence of the knowledge base has 0 <= count <= |cells|.
C4_CountInRange ==
    \A k \in 1..Len(knowledge) :
        /\ 0 <= knowledge[k].count
        /\ knowledge[k].count <= Cardinality(knowledge[k].cells)

\* C5: when add_knowledge is called with count equal to the number of
\* unresolved neighbours of the cell, the call puts none of them into safes,
\* and all of them are in mines once the loop has visited the new sentence.
C5_AllNeighboursMines ==
    (pc = "loop" /\ count = Cardinality(BoardNeighbours)) =>
        /\ BoardNeighbours \cap safes = {}
        /\ idx > new => BoardNeighbours \subseteq mines

\* C6 (subset inference): when the loop visits a sentence A whose cells are a
\* strict subset of the cells of the new sentence B, the sentence with cells
\* B.cells - A.cells and count B.count - A.count is derived and, A holding a
\* mine (count > 0), the cells of A are not marked safe by that inference; and
\* once the new sentence has been visited, the cells of every sentence with
\* count 0 are in safes.
C6_Inference ==
    (pc = "loop" /\ idx <= Len(knowledge) /\ Len(knowledge) < MaxKnow) =>
        LET A == knowledge[idx]
            B == knowledge[new]
        IN  /\ (A.cells # {} /\ A.cells \subseteq B.cells /\ A.cells # B.cells) =>
                  /\ \E k \in 1..Len(knowledge') :
                        /\ knowledge'[k].cells = B.cells \ A.cells
                        /\ knowledge'[k].count = B.count - A.count
                  /\ A.count > 0 => A.cells \cap safes' = {}
            /\ idx = new =>
                  \A k \in 1..Len(knowledge') :
                      knowledge'[k].count = 0 => knowledge'[k].cells \subseteq safes'

\* C6 as a property of every step: each loop iteration makes the subset
\* inference as stated above.
C6_SubsetInference == [][C6_Inference]_vars

\* C7: every cell make_random_move can return (every cell of potential_moves)
\* is a board cell that is in neither moves_made nor mines.
C7_RandomMoveCells ==
    \A c \in Range(potential_moves) :
        /\ c \in Board(height, width)
        /\ c \notin moves_made
        /\ c \notin mines

\* C8: make_random_move fails (IndexError, no cell returned) if and only if no
\* board cell is left outside moves_made and mines, and returns a cell whenever
\* there is one; a failure is not a None result.
C8_RandomMove ==
    MakeRandomMove =>
        LET left == Board(height, width) \ (moves_made \cup mines)
        IN  /\ exc' = "IndexError" <=> left = {}
            /\ left # {} => ret' # {}
            /\ exc' = "IndexError" => ret' = {}

\* C8 as a property of every step: each make_random_move call fails exactly
\* when no board cell is left outside moves_made and mines.
C8_ExhaustedIff == [][C8_RandomMove]_vars

\* C9: make_safe_move returns None exactly when safes \ moves_made is empty,
\* and otherwise a cell of safes that is not in moves_made.
C9_SafeMove ==
    op = "make_safe_move" =>
        /\ exc = "none"
        /\ ret = {} <=> safes \ moves_made = {}
        /\ ret \subseteq safes \ moves_made

\* C9 witness: make_safe_move has returned a cell known to be safe.
C9_Witness == op = "make_safe_move" /\ ret # {} /\ pc = "idle"

\* C10: a call of make_safe_move leaves safes, mines, moves_made and the
\* knowledge list as they were, whether it returns a cell or None.
C10_SafeMovePure ==
    [][MakeSafeMove => UNCHANGED <<safes, mines, moves_made, knowledge>>]_vars

\* C10 witness: make_safe_move has returned a cell and taken it off the list
\* of potential moves.
C10_Witness ==
    /\ op = "make_safe_move"
    /\ \E c \in ret : c \in safes /\ c \notin Range(potential_moves)

\* C11: the sentence add_knowledge builds for the revealed cell holds exactly
\* the neighbours of the cell that lie on the board and are in none of
\* moves_made, safes and mines at that moment (seen before the loop has
\* touched anything); it holds no coordinate outside the board.
C11_NewSentenceCells ==
    (pc = "loop" /\ idx = 1) =>
        /\ knowledge[new].cells =
              {t \in Around(cell) \cap Board(height, width) :
                  t \notin moves_made /\ t \notin safes /\ t \notin mines}
        /\ knowledge[new].count = count

\* C12: no cell that occurs in a sentence of the knowledge base is in safes
\* or in mines.
C12_SentenceCellsUnresolved ==
    \A k \in 1..Len(knowledge) :
        knowledge[k].cells \cap (safes \cup mines) = {}

\* C12 witness: add_knowledge has built its sentence next to cells already
\* marked as mine and as safe, which it left out.
C12_Witness ==
    /\ pc = "loop" /\ idx = 1
    /\ Around(cell) \cap mines # {}
    /\ Around(cell) \cap safes # {}
    /\ knowledge[new].cells # {}

\* C13: moves_made is a subset of safes in every state: a cell recorded as
\* played is recorded as safe and stays so.
C13_MovesMadeSafe == moves_made \subseteq safes

\* C13 witness: add_knowledge has recorded its cell as played and its loop has
\* gone on past the new sentence.
C13_Witness ==
    /\ pc = "loop" /\ idx > new
    /\ cell \in moves_made
    /\ mines # {}

\* The cells a caller can name in the current state: those of the board and
\* those that occur in a sentence.
KnownCells ==
    Board(height, width) \cup UNION {knowledge[k].cells : k \in 1..Len(knowledge)}

\* C14 (idempotence): in every state and for every cell c, calling
\* mark_mine(c) twice leaves the AI (mines, safes, potential_moves and every
\* sentence's cells and count) as calling it once does, and so for
\* mark_safe(c); a sentence's count goes down once only.
C14_MarkIdempotent ==
    \A c \in KnownCells :
        LET once_mine == mark_mine(AI, c)
            once_safe == mark_safe(AI, c)
        IN  /\ mark_mine(once_mine, c) = once_mine
            /\ mark_safe(once_safe, c) = once_safe

\* C14 witness: mark_mine has been called, and the knowledge base holds a
\* sentence with cells, each of which a further mark_mine would take out.
C14_Witness ==
    /\ mines # {}
    /\ pc = "loop"
    /\ \E k \in 1..Len(knowledge) :
          knowledge[k].cells # {} /\ knowledge[k].count > 0

\* C15: known_mines() returns exactly the cells of the sentence when
\* |cells| = count and the empty set otherwise, and changes nothing in the
\* sentence (cells, count and the sets it keeps).
C15_Call ==
    KnownMines =>
        /\ ret' = IF Cardinality(knowledge[1].cells) = knowledge[1].count
                  THEN knowledge[1].cells ELSE {}
        /\ knowledge' = knowledge

\* C15 as a property of every step: each known_mines call answers and leaves
\* the sentence as stated above.
C15_KnownMines == [][C15_Call]_vars

\* C16: known_safes() returns exactly the cells of the sentence when
\* count = 0 and the empty set otherwise, and changes nothing in the sentence.
C16_Call ==
    KnownSafes =>
        /\ ret' = IF knowledge[1].count = 0 THEN knowledge[1].cells ELSE {}
        /\ knowledge' = knowledge

\* C16 as a property of every step: each known_safes call answers and leaves
\* the sentence as stated above.
C16_KnownSafes == [][C16_Call]_vars

\* The running call is add_knowledge((2, 2), 0), the first call made on the
\* AI, and its loop has visited the new sentence.
ScenarioCall ==
    /\ pc = "loop" /\ calls = 1
    /\ cell = <<2, 2>> /\ count = 0
    /\ idx > new

\* C17 as claimed: on the 3 x 3 board with its mine at (0, 0), the single call
\* add_knowledge((2, 2), 0) on a fresh AI puts all eight cells other than
\* (0, 0) into safes and leaves (0, 0) out.
C17_AllEightSafe ==
    ScenarioCall =>
        /\ Board(height, width) \ {<<0, 0>>} \subseteq safes
        /\ <<0, 0>> \notin safes

\* C17 as amended: that call puts (2, 2) and its three neighbours on the board
\* into safes and no other cell of the board; (0, 0) stays out of safes.
C17_NeighboursSafe ==
    ScenarioCall =>
        /\ safes \cap Board(height, width) =
              {<<2, 2>>, <<1, 1>>, <<1, 2>>, <<2, 1>>}
        /\ <<0, 0>> \notin safes

\* C17 witness: the call of the scenario, with its loop well past the new
\* sentence.
C17_Witness == ScenarioCall /\ idx > new + 1

\* The sentence the loop body builds from the sentence at position i and the
\* new sentence at position nw (lines 238-241 and 252-254), as it is when it
\* is appended.
Derived(a, i, nw) ==
    IF a.knowledge[i].cells \subseteq a.knowledge[nw].cells
    THEN Sentence(a.knowledge[nw].cells \ a.knowledge[i].cells,
                  a.knowledge[nw].count - a.knowledge[i].count)
    ELSE Sentence(a.knowledge[i].cells \ a.knowledge[nw].cells,
                  a.knowledge[i].count - a.knowledge[nw].count)

\* C18: a loop iteration appends its derived sentence only if that sentence
\* has at least one cell and no sentence with the same cells and the same
\* count is in the knowledge base already.
C18_Append ==
    (pc = "loop" /\ idx <= Len(knowledge) /\ Len(knowledge') > Len(knowledge)) =>
        /\ Derived(AI, idx, new).cells # {}
        /\ \A k \in 1..Len(knowledge) :
              ~ (/\ knowledge[k].cells = Derived(AI, idx, new).cells
                 /\ knowledge[k].count = Derived(AI, idx, new).count)

\* C18 as a property of every step of add_knowledge's loop.
C18_AppendsOnlyNew == [][C18_Append]_vars

\* C19: every cell make_safe_move or make_random_move can return lies on the
\* board: safes holds no coordinate off the board that is not a move made,
\* and neither does potential_moves.
C19_MovesOnBoard ==
    /\ SafeMoves(AI) \subseteq Board(height, width)
    /\ Range(potential_moves) \subseteq Board(height, width)

====
